---- MODULE Spec2Model ----
(***************************************************************************)
(* The forum thread / comment tree of medi-bridge-backend                  *)
(* (src/controllers/forumController.js): the Post and Comment collections, *)
(* the handlers createPost, createComment (insert, then link, two separate *)
(* store writes) and getAllPosts (nested populate of fixed depth).         *)
(***************************************************************************)
EXTENDS Integers, Sequences, FiniteSets

\* ------------------------------------------------------------------ bounds
\* Spec: any request, well-formed or not, and a failing link step.
MaxPosts == 2
MaxComments == 2
MaxInFlight == 2
MaxLinkErrors == 1
\* SpecThread: requests that name stored documents, on one post.
MaxThread == 4
MaxThreadInFlight == 2

\* ---------------------------------------------------------- input domains
\* req.body.parentCommentId undefined / null / "": every falsy value.
NoParent == 0
\* A well-formed id that names no stored document.
NoSuchId == 99
\* The null stored in Comment.parentComment.
Null == 0

\* req.body.content: missing, the empty string, a text.
Missing == "undefined"
Contents == {Missing, "", "text"}

\* req.user as set by the protect middleware: an id and a role.
Users == { [id |-> "u1", role |-> "user"], [id |-> "d1", role |-> "doctor"] }

VARIABLES user, posts, comments, requests, lastResponse, linkFailed

vars == <<user, posts, comments, requests, lastResponse, linkFailed>>

\* ------------------------------------------------------------- helpers
\* JavaScript !content
Falsy_OnlyMissing(content) == content = Missing
Falsy(content) == content \in {Missing, ""}

capitalizeRole(role) ==
    CASE role = "user" -> "User"
      [] role = "doctor" -> "Doctor"

\* parentComment: parentCommentId || null
ParentCommentField(parentCommentId) ==
    IF parentCommentId = NoParent THEN Null ELSE parentCommentId

\* if (parentCommentId)
HasParent_Never(parentCommentId) == FALSE
HasParent(parentCommentId) == parentCommentId # NoParent

PostIds == 1..Len(posts)
CommentIds == 1..Len(comments)

\* populate("author", "name specialization") through refPath authorType
ResolveAuthor(author, authorType) ==
    IF authorType = "Doctor"
    THEN [name |-> author, specialization |-> "general"]
    ELSE [name |-> author]

\* createdAt is a logical time: the rank of the document's creation within its
\* collection, which is all that the two sorts of getAllPosts read.
\* Post.create({content, author, authorType}): comments defaults to [].
NewPost(u, content) ==
    [content |-> content, author |-> u.id, authorType |-> capitalizeRole(u.role),
     comments |-> <<>>, createdAt |-> Len(posts) + 1]

\* Comment.create({content, author, authorType, post, parentComment})
NewComment(u, postId, content, parentCommentId) ==
    [content |-> content, author |-> u.id, authorType |-> capitalizeRole(u.role),
     post |-> postId, parentComment |-> ParentCommentField(parentCommentId),
     replies |-> <<>>, createdAt |-> Len(comments) + 1]

\* Post.findByIdAndUpdate(postId, {$push: {comments: id}}): no document, no-op.
PushComments(ps, postId, id) ==
    IF postId \in DOMAIN ps
    THEN [ps EXCEPT ![postId].comments = Append(@, id)]
    ELSE ps

\* Comment.findByIdAndUpdate(parentCommentId, {$push: {replies: id}})
PushReplies_Self(cs, parentCommentId, id) ==
    IF parentCommentId \in DOMAIN cs
    THEN [cs EXCEPT ![id].replies = Append(@, id)]
    ELSE cs
PushReplies(cs, parentCommentId, id) ==
    IF parentCommentId \in DOMAIN cs
    THEN [cs EXCEPT ![parentCommentId].replies = Append(@, id)]
    ELSE cs

\* ------------------------------------------------------------- populate
RECURSIVE InsertAsc(_, _, _)
InsertAsc(docs, s, id) ==
    IF s = <<>> THEN <<id>>
    ELSE IF docs[id].createdAt < docs[Head(s)].createdAt
         THEN <<id>> \o s
         ELSE <<Head(s)>> \o InsertAsc(docs, Tail(s), id)

RECURSIVE SortAsc(_, _)
\* sort: {createdAt: 1}
SortAsc(docs, s) ==
    IF s = <<>> THEN <<>>
    ELSE InsertAsc(docs, SortAsc(docs, SubSeq(s, 1, Len(s) - 1)), s[Len(s)])

Reverse(s) == [k \in 1..Len(s) |-> s[Len(s) + 1 - k]]

\* sort: {createdAt: -1}
SortDesc(docs, s) == Reverse(SortAsc(docs, s))

\* A reference that no populate reached stays an id.
Bare(id) == [id |-> id, expanded |-> FALSE]

\* A populated Comment document; its replies field is given by the caller.
Doc(id, replies) ==
    [id |-> id, expanded |-> TRUE,
     content |-> comments[id].content,
     author |-> ResolveAuthor(comments[id].author, comments[id].authorType),
     post |-> comments[id].post,
     parentComment |-> comments[id].parentComment,
     createdAt |-> comments[id].createdAt,
     replies |-> replies]

\* {path: "replies", populate: {path: "author"}} : the innermost level.
PopulateInner_Bare(id) == Bare(id)
PopulateInner(id) ==
    Doc(id, [k \in 1..Len(comments[id].replies) |-> Bare(comments[id].replies[k])])

\* commentPopulation: {path: "replies", populate: [author, replies...]}
commentPopulation_Shallow(id) ==
    Doc(id, [k \in 1..Len(comments[id].replies) |-> Bare(comments[id].replies[k])])
commentPopulation(id) ==
    Doc(id, [k \in 1..Len(comments[id].replies) |->
                PopulateInner(comments[id].replies[k])])

\* {path: "comments", populate: [author, commentPopulation]}
PopulateComment(id) ==
    Doc(id, [k \in 1..Len(comments[id].replies) |->
                commentPopulation(comments[id].replies[k])])

\* options: {sort: {createdAt: 1}} on the comments path
PopulateComments(p) ==
    LET s == SortAsc(comments, posts[p].comments)
    IN  [k \in 1..Len(s) |-> PopulateComment(s[k])]

PopulatePost(p) ==
    [id |-> p, content |-> posts[p].content,
     author |-> ResolveAuthor(posts[p].author, posts[p].authorType),
     createdAt |-> posts[p].createdAt,
     comments |-> PopulateComments(p)]

\* Post.find().sort({createdAt: -1}).populate(...)
HydratedPosts ==
    LET s == SortDesc(posts, [k \in 1..Len(posts) |-> k])
    IN  [k \in 1..Len(s) |-> PopulatePost(s[k])]

\* ------------------------------------------------------------- state
Init ==
    /\ user \in Users
    /\ posts = <<>>
    /\ comments = <<>>
    /\ requests = {}
    /\ lastResponse = [op |-> "none", status |-> 0, body |-> "none"]
    /\ linkFailed = {}

\* ------------------------------------------------------------- handlers
createPost(u, content) ==
    IF Falsy(content)
    THEN /\ lastResponse' = [op |-> "createPost", status |-> 400,
                             body |-> "Post content cannot be empty"]
         /\ UNCHANGED <<user, posts, comments, requests, linkFailed>>
    ELSE /\ posts' = Append(posts, NewPost(u, content))
         /\ lastResponse' =
              [op |-> "createPost", status |-> 201,
               body |-> [id |-> Len(posts) + 1, content |-> content,
                         author |-> ResolveAuthor(u.id, capitalizeRole(u.role)),
                         comments |-> <<>>, createdAt |-> Len(posts) + 1]]
         /\ UNCHANGED <<user, comments, requests, linkFailed>>

\* createComment up to the first await: validation, then Comment.create.
createCommentInsert(u, postId, content, parentCommentId) ==
    IF Falsy(content)
    THEN /\ lastResponse' = [op |-> "createComment", status |-> 400,
                             body |-> "Comment content cannot be empty"]
         /\ UNCHANGED <<user, posts, comments, requests, linkFailed>>
    ELSE /\ comments' = Append(comments, NewComment(u, postId, content, parentCommentId))
         /\ requests' = requests \cup
              {[newComment |-> Len(comments) + 1, postId |-> postId,
                parentCommentId |-> parentCommentId]}
         /\ UNCHANGED <<user, posts, lastResponse, linkFailed>>

\* createComment after Comment.create: the $push, the findById, the 201.
createCommentLink(r) ==
    /\ r \in requests
    /\ IF HasParent(r.parentCommentId)
       THEN /\ comments' = PushReplies(comments, r.parentCommentId, r.newComment)
            /\ posts' = posts
       ELSE /\ posts' = PushComments(posts, r.postId, r.newComment)
            /\ comments' = comments
    /\ requests' = requests \ {r}
    /\ lastResponse' =
         [op |-> "createComment", status |-> 201,
          body |-> [id |-> r.newComment,
                    content |-> comments[r.newComment].content,
                    author |-> ResolveAuthor(comments[r.newComment].author,
                                             comments[r.newComment].authorType),
                    post |-> comments[r.newComment].post,
                    parentComment |-> comments[r.newComment].parentComment]]
    /\ UNCHANGED <<user, linkFailed>>

\* The findByIdAndUpdate of step 2 rejects: catch, 500; the Comment stays.
createCommentLinkError_Compensate(r) ==
    /\ r \in requests
    /\ r.newComment = Len(comments)
    /\ comments' = SubSeq(comments, 1, Len(comments) - 1)
    /\ requests' = requests \ {r}
    /\ linkFailed' = linkFailed \cup {[comment |-> r.newComment, status |-> 500]}
    /\ lastResponse' = [op |-> "createComment", status |-> 500,
                        body |-> "Error creating comment"]
    /\ UNCHANGED <<user, posts>>
createCommentLinkError(r) ==
    /\ r \in requests
    /\ requests' = requests \ {r}
    /\ linkFailed' = linkFailed \cup {[comment |-> r.newComment, status |-> 500]}
    /\ lastResponse' = [op |-> "createComment", status |-> 500,
                        body |-> "Error creating comment"]
    /\ UNCHANGED <<user, posts, comments>>

getAllPosts ==
    /\ lastResponse' = [op |-> "getAllPosts", status |-> 200, body |-> HydratedPosts]
    /\ UNCHANGED <<user, posts, comments, requests, linkFailed>>

InFlight == {r.newComment : r \in requests}
FailedIds == {f.comment : f \in linkFailed}
\* The comments whose createComment request was answered 201: the ids of
\* comments that a client has been shown. An id is generated by Comment.create
\* and first leaves the server in the 201 response.
Answered201 == CommentIds \ (InFlight \cup FailedIds)

\* The ids a request may carry: an id the client was shown, or one that names
\* no document. Validation comes first, so a request that is rejected never
\* reads its ids: one choice of them stands for all.
PostIdInputs(c) == IF Falsy(c) THEN {NoSuchId} ELSE PostIds \cup {NoSuchId}
ParentInputs(c) ==
    IF Falsy(c) THEN {NoParent} ELSE {NoParent} \cup Answered201 \cup {NoSuchId}
ThreadPostIds(c) == IF Falsy(c) THEN {1} ELSE PostIds
ThreadParents(c) == IF Falsy(c) THEN {NoParent} ELSE {NoParent} \cup Answered201

PostRoom(c) == Falsy(c) \/ Len(posts) < MaxPosts
CommentRoom(c) ==
    Falsy(c) \/ (Len(comments) < MaxComments /\ Cardinality(requests) < MaxInFlight)

Next ==
    \/ \E c \in Contents : PostRoom(c) /\ createPost(user, c)
    \/ \E c \in Contents : \E p \in PostIdInputs(c), pc \in ParentInputs(c) :
          CommentRoom(c) /\ createCommentInsert(user, p, c, pc)
    \/ \E r \in requests : createCommentLink(r)
    \/ \E r \in requests :
          Cardinality(linkFailed) < MaxLinkErrors /\ createCommentLinkError(r)
    \/ getAllPosts

Spec == Init /\ [][Next]_vars

\* One post in the store; every request names it and a stored comment or none.
InitThread ==
    /\ user \in Users
    /\ posts = <<[content |-> "text", author |-> user.id,
                  authorType |-> capitalizeRole(user.role),
                  comments |-> <<>>, createdAt |-> 1]>>
    /\ comments = <<>>
    /\ requests = {}
    /\ lastResponse = [op |-> "none", status |-> 0, body |-> "none"]
    /\ linkFailed = {}

ThreadRoom(c) ==
    Falsy(c) \/ (Len(comments) < MaxThread /\ Cardinality(requests) < MaxThreadInFlight)

NextThread ==
    \/ \E c \in Contents : \E p \in ThreadPostIds(c), pc \in ThreadParents(c) :
          ThreadRoom(c) /\ createCommentInsert(user, p, c, pc)
    \/ \E r \in requests : createCommentLink(r)
    \/ getAllPosts

SpecThread == InitThread /\ [][NextThread]_vars

\* =================================================================
\* Properties
\* =================================================================
Range(s) == {s[k] : k \in DOMAIN s}

Children(S) == UNION {Range(comments[c].replies) : c \in S}

RECURSIVE Closure(_)
\* Every comment reachable from the set S by replies links, S included.
Closure(S) ==
    LET T == S \cup (Children(S) \cap CommentIds)
    IN  IF T = S THEN S ELSE Closure(T)

PostsHolding(c) == {p \in PostIds : c \in Range(posts[p].comments)}
CommentsHolding(c) == {d \in CommentIds : c \in Range(comments[d].replies)}

Listed == lastResponse.op = "getAllPosts" /\ lastResponse.status = 200

\* The nodes of a listing, level by level below the posts.
Level1(L) == UNION {Range(L[i].comments) : i \in DOMAIN L}
Level2(L) == UNION {Range(n.replies) : n \in Level1(L)}
Level3(L) == UNION {Range(n.replies) : n \in Level2(L)}
Level4(L) == UNION {Range(n.replies) : n \in Level3(L)}
Ids(N) == {n.id : n \in N}
ListedIds(L) == Ids(Level1(L)) \cup Ids(Level2(L)) \cup Ids(Level3(L)) \cup Ids(Level4(L))

IdSeq(ns) == [k \in DOMAIN ns |-> ns[k].id]
\* A node that is a full Comment object of the store, its author resolved.
Full(n) ==
    /\ n.expanded
    /\ n.id \in CommentIds
    /\ n.content = comments[n.id].content
    /\ n.post = comments[n.id].post
    /\ n.author.name = comments[n.id].author
\* The node's replies are those of the stored comment, in the stored order.
SameReplies(n) == IdSeq(n.replies) = comments[n.id].replies

\* C1 (as claimed): every comment whose request was answered 201 is linked
\* exactly once: a top-level comment in exactly one Post's comments, a reply in
\* exactly one Comment's replies, also when the id it named is no document.
C1_LinkedExactlyOnce ==
    \A c \in Answered201 :
        IF comments[c].parentComment = Null
        THEN Cardinality(PostsHolding(c)) = 1
        ELSE Cardinality(CommentsHolding(c)) = 1

\* C2: every id in a Post's comments is a stored Comment of that post with
\* parentComment = null.
C2_PostCommentsAreOwnTopLevel ==
    \A p \in PostIds : \A c \in Range(posts[p].comments) :
        /\ c \in CommentIds
        /\ comments[c].post = p
        /\ comments[c].parentComment = Null

C2_Witness ==
    \E p \in PostIds, c \in CommentIds :
        /\ Len(posts[p].comments) >= 1
        /\ comments[c].parentComment # Null
        /\ c \in Answered201

\* C3 (as claimed): a listing holds, for every post, every comment reachable
\* from it at any depth as an expanded object, and no bare id anywhere.
C3_WholeTreeExpanded ==
    Listed =>
        LET L == lastResponse.body IN
        /\ \A i \in DOMAIN L :
             LET one == <<L[i]>> IN
             {n.id : n \in {m \in Level1(one) \cup Level2(one) \cup Level3(one) : m.expanded}}
                = Closure(Range(posts[L[i].id].comments))
        /\ \A n \in Level4(L) : n.expanded

\* C3 (amended): a listing holds every post with its tree down to three levels:
\* the post's comments, their replies and the replies of those are full Comment
\* objects with the author resolved, each with the replies of the stored
\* comment; the replies of a third-level comment are left as bare ids.
C3_TreeExpandedToDepth3 ==
    Listed =>
        LET L == lastResponse.body IN
        /\ {L[i].id : i \in DOMAIN L} = PostIds
        /\ \A i \in DOMAIN L :
             Ids(Range(L[i].comments)) = Range(posts[L[i].id].comments)
        /\ \A n \in Level1(L) \cup Level2(L) \cup Level3(L) : Full(n) /\ SameReplies(n)
        /\ \A n \in Level4(L) : ~n.expanded

C3_Witness ==
    /\ Listed
    /\ Level4(lastResponse.body) # {}
    /\ Level3(lastResponse.body) # {}

\* C4: once A (top-level), B (reply to A) and C (reply to B) are created, a
\* listing shows A in the post's comments, B in A's replies and C in B's
\* replies, each as an expanded object.
C4_ThreeLevelsListed ==
    Listed =>
        \A a, b, c \in Answered201 :
            ( /\ comments[a].parentComment = Null
              /\ comments[a].post \in PostIds
              /\ comments[b].parentComment = a
              /\ comments[c].parentComment = b )
            =>
            \E i \in DOMAIN lastResponse.body :
                /\ lastResponse.body[i].id = comments[a].post
                /\ \E na \in Range(lastResponse.body[i].comments) :
                     /\ na.id = a /\ na.expanded
                     /\ \E nb \in Range(na.replies) :
                          /\ nb.id = b /\ nb.expanded
                          /\ \E nc \in Range(nb.replies) : nc.id = c /\ nc.expanded

C4_Witness ==
    /\ Listed
    /\ \E a, b, c \in Answered201 :
          /\ comments[a].parentComment = Null
          /\ comments[b].parentComment = a
          /\ comments[c].parentComment = b

\* A step in which the createComment request r is answered 201.
Answers201(r) ==
    /\ r \in requests
    /\ r \notin requests'
    /\ lastResponse'.op = "createComment"
    /\ lastResponse'.status = 201

\* C5 (as claimed): every createComment answered 201 appended the new id to
\* exactly one array: to the parent's replies when parentCommentId is present
\* (the posts unchanged), else to the post's comments (the comments unchanged).
C5_ExactlyOneAppend ==
    [][ \A r \in requests :
          Answers201(r) =>
            IF r.parentCommentId # NoParent
            THEN /\ posts' = posts
                 /\ r.parentCommentId \in CommentIds
                 /\ comments' = [comments EXCEPT ![r.parentCommentId].replies =
                                                    Append(@, r.newComment)]
            ELSE /\ comments' = comments
                 /\ r.postId \in PostIds
                 /\ posts' = [posts EXCEPT ![r.postId].comments =
                                              Append(@, r.newComment)]
      ]_vars

\* The empty and the missing content.
EmptyContents == {Missing, ""}

\* C6: createPost or createComment with empty or missing content answers 400
\* and changes neither collection, nor starts a link step.
C6_EmptyContentRejected ==
    [][ \A c \in EmptyContents :
          ( \/ createPost(user, c)
            \/ \E p \in PostIds \cup {NoSuchId}, pc \in CommentIds \cup {NoParent, NoSuchId} :
                  createCommentInsert(user, p, c, pc) )
          => /\ lastResponse'.status = 400
             /\ posts' = posts
             /\ comments' = comments
             /\ requests' = requests
      ]_vars

C6_Witness ==
    /\ lastResponse.status = 400
    /\ Len(posts) >= 1
    /\ Len(comments) >= 1

SortedAsc(ns) == \A i, j \in DOMAIN ns : i < j => ns[i].createdAt <= ns[j].createdAt
SortedDesc(ns) == \A i, j \in DOMAIN ns : i < j => ns[i].createdAt >= ns[j].createdAt

\* C7 (as claimed): in a listing the posts are newest first, and the comments
\* of each post and the replies of each comment are oldest first.
C7_ListingOrdered ==
    Listed =>
        LET L == lastResponse.body IN
        /\ SortedDesc(L)
        /\ \A i \in DOMAIN L : SortedAsc(L[i].comments)
        /\ \A n \in Level1(L) \cup Level2(L) : SortedAsc(n.replies)

\* C8: no Comment is reachable from itself by replies links.
C8_RepliesAcyclic ==
    \A c \in CommentIds : c \notin Closure(Range(comments[c].replies) \cap CommentIds)

C8_Witness ==
    \E c \in CommentIds : Len(comments[c].replies) >= 1

\* C9: a Comment whose link step failed was answered 500, stays in the store
\* under its id, is in no comments or replies array and in no listing, and no
\* request is left that would link it.
C9_OrphanStays ==
    \A f \in linkFailed :
        /\ f.status = 500
        /\ f.comment \in CommentIds
        /\ PostsHolding(f.comment) = {}
        /\ CommentsHolding(f.comment) = {}
        /\ f.comment \notin InFlight
        /\ f.comment \notin ListedIds(HydratedPosts)
        /\ Listed => f.comment \notin ListedIds(lastResponse.body)

C9_Witness ==
    /\ linkFailed # {}
    /\ Listed
    /\ \E p \in PostIds : Len(posts[p].comments) >= 1

\* C10 (as claimed, for requests whose postId names a stored post): a Comment
\* reachable from a Post has that post as its post field, and a reply has the
\* post of its parent.
C10_OnePostPerTree ==
    /\ \A p \in PostIds :
          \A c \in Closure(Range(posts[p].comments)) :
              comments[c].post \in PostIds => comments[c].post = p
    /\ \A d \in CommentIds : \A c \in Range(comments[d].replies) :
          (comments[c].post \in PostIds /\ comments[d].post \in PostIds)
             => comments[c].post = comments[d].post

====
